---------------------------- MODULE Spec2Model ----------------------------
(***************************************************************************)
(* Dot Blot optimisation tool (src/app.py): one execution of the Streamlit *)
(* script.  The script parses the rows typed by the user, reads the run    *)
(* button, and when it is pressed enumerates one ordered arrangement per   *)
(* row, assembles columns, deduplicates them by canonical key, scores and  *)
(* sorts them; the Excel export block follows at module level.             *)
(*                                                                         *)
(* Numbers: the rows hold Python floats.  The model draws whole numbers    *)
(* (finite, non-NaN) and carries every computed float as <<m, e>>, the     *)
(* value m * 2^e with m odd or zero and |m| < 2^Prec, each operation       *)
(* rounded to nearest-even as IEEE-754 does.  Prec is the significand      *)
(* width (53 for the program's float64, scaled down here).                 *)
(***************************************************************************)
EXTENDS Integers, Sequences, FiniteSets, TLC

\* ------------------------------------------------------------------------
\* Bounds of the model
\* ------------------------------------------------------------------------
MaxRows == 2
MaxCells == 4
MaxVal == 2
Prec == 9

\* ------------------------------------------------------------------------
\* Floating point arithmetic (Python float / numpy float64 operations)
\* ------------------------------------------------------------------------
Abs(x) == IF x < 0 THEN -x ELSE x

Min2(a, b) == IF a <= b THEN a ELSE b

Max2(a, b) == IF a >= b THEN a ELSE b

RECURSIVE BitLen(_)
BitLen(n) == IF n = 0 THEN 0 ELSE 1 + BitLen(n \div 2)

RECURSIVE Norm(_, _)
Norm(m, e) ==
    IF m = 0 THEN <<0, 0>>
    ELSE IF m % 2 = 0 THEN Norm(m \div 2, e + 1)
    ELSE <<m, e>>

\* Round M * 2^E (M >= 0; sticky: a non-zero remainder lies below M's last
\* bit) to Prec significant bits, ties to even.
Round(M, E, sticky) ==
    LET L == BitLen(M) IN
    IF L <= Prec THEN Norm(M, E)
    ELSE LET s == L - Prec
             q == M \div (2 ^ s)
             r == M % (2 ^ s)
             half == 2 ^ (s - 1)
             up == r > half \/ (r = half /\ (sticky \/ q % 2 = 1))
         IN  Norm(IF up THEN q + 1 ELSE q, E + s)

Neg(a) == <<-a[1], a[2]>>

FRound(M, E, sticky) ==
    IF M < 0 THEN Neg(Round(-M, E, sticky)) ELSE Round(M, E, sticky)

Zero == <<0, 0>>

FromInt(n) == FRound(n, 0, FALSE)

Top(a) == a[2] + BitLen(Abs(a[1]))

FAdd(a, b) ==
    IF a[1] = 0 THEN b
    ELSE IF b[1] = 0 THEN a
    ELSE IF Top(a) - Top(b) >= Prec + 3 THEN a
    ELSE IF Top(b) - Top(a) >= Prec + 3 THEN b
    ELSE LET emin == Min2(a[2], b[2])
             M == a[1] * (2 ^ (a[2] - emin)) + b[1] * (2 ^ (b[2] - emin))
         IN  FRound(M, emin, FALSE)

FSub(a, b) == FAdd(a, Neg(b))

FMul(a, b) == FRound(a[1] * b[1], a[2] + b[2], FALSE)

FDiv(a, b) ==
    IF a[1] = 0 THEN Zero
    ELSE LET ma == Abs(a[1])
             mb == Abs(b[1])
             s == Prec + 2 + BitLen(mb) - BitLen(ma)
             num == ma * (2 ^ s)
             q == num \div mb
             st == (num % mb) # 0
             res == Round(q, a[2] - b[2] - s, st)
         IN  IF (a[1] < 0) # (b[1] < 0) THEN Neg(res) ELSE res

RECURSIVE SqrtSearch(_, _, _)
SqrtSearch(X, lo, hi) ==
    IF lo = hi THEN lo
    ELSE LET mid == (lo + hi + 1) \div 2
         IN  IF mid * mid <= X THEN SqrtSearch(X, mid, hi)
             ELSE SqrtSearch(X, lo, mid - 1)

ISqrt(X) == SqrtSearch(X, 0, 2 ^ (Prec + 3))

FSqrt(a) ==
    IF a[1] = 0 THEN Zero
    ELSE LET t0 == Max2(0, 2 * Prec + 3 - BitLen(a[1]))
             t == t0 + ((a[2] - t0) % 2)
             X == a[1] * (2 ^ t)
             R == ISqrt(X)
         IN  Round(R, (a[2] - t) \div 2, R * R # X)

FLess(a, b) == FSub(a, b)[1] < 0

\* ------------------------------------------------------------------------
\* Sequence helpers
\* ------------------------------------------------------------------------
RECURSIVE Flatten(_)
Flatten(ss) == IF ss = <<>> THEN <<>> ELSE Head(ss) \o Flatten(Tail(ss))

RemoveAt(s, i) == [j \in 1..(Len(s) - 1) |-> IF j < i THEN s[j] ELSE s[j + 1]]

Range(s) == {s[i] : i \in 1..Len(s)}

RECURSIVE ProdLen(_)
ProdLen(ss) == IF ss = <<>> THEN 1 ELSE Len(Head(ss)) * ProdLen(Tail(ss))

\* Python's lexicographic order on tuples of numbers.
RECURSIVE TupleLess(_, _)
TupleLess(a, b) ==
    IF a = <<>> THEN b # <<>>
    ELSE IF b = <<>> THEN FALSE
    ELSE IF Head(a) < Head(b) THEN TRUE
    ELSE IF Head(b) < Head(a) THEN FALSE
    ELSE TupleLess(Tail(a), Tail(b))

\* sorted(): a stable insertion sort on tuples.  Each element is inserted,
\* in the original order, behind every element that is not greater than it.
RECURSIVE InsertTuple(_, _)
InsertTuple(x, s) ==
    IF s = <<>> THEN <<x>>
    ELSE IF TupleLess(x, Head(s)) THEN <<x>> \o s
    ELSE <<Head(s)>> \o InsertTuple(x, Tail(s))

RECURSIVE SortedTuples(_)
SortedTuples(s) ==
    IF s = <<>> THEN <<>>
    ELSE InsertTuple(s[Len(s)], SortedTuples(SubSeq(s, 1, Len(s) - 1)))

\* ------------------------------------------------------------------------
\* The functions of the engine (src/app.py, lines 65-95)
\* ------------------------------------------------------------------------
\* Variant: the zeros are kept (the filter of line 66 dropped).
nonzero_list_keep_zeros(row) == row

nonzero_list(row) == SelectSeq(row, LAMBDA v : v # 0)

normalize_columns(columns) ==
    [c \in 1..Len(columns) |->
        LET col == columns[c]
            base_val == col[1]
        IN  IF base_val = 0
            THEN [i \in 1..Len(col) |-> Zero]
            ELSE [i \in 1..Len(col) |->
                     FMul(FDiv(FromInt(col[i]), FromInt(base_val)), FromInt(100))]]

\* zip(*norm_cols): row r collects entry r of every column.
ZipColumns(norm_cols) ==
    IF norm_cols = <<>> THEN <<>>
    ELSE [r \in 1..Len(norm_cols[1]) |->
             [c \in 1..Len(norm_cols) |-> norm_cols[c][r]]]

\* Left-to-right floating point sum (sum(), np.add.reduce on a short array).
RECURSIVE FSum(_)
FSum(xs) ==
    IF xs = <<>> THEN Zero
    ELSE FAdd(FSum(SubSeq(xs, 1, Len(xs) - 1)), xs[Len(xs)])

np_mean(arr) == FDiv(FSum(arr), FromInt(Len(arr)))

np_std_ddof1(arr) ==
    LET m == np_mean(arr)
        sq == [i \in 1..Len(arr) |-> LET d == FSub(arr[i], m) IN FMul(d, d)]
    IN  FSqrt(FDiv(FSum(sq), FromInt(Len(arr) - 1)))

\* Variant: the single-sample branch appends mean and sd the wrong way round.
calc_sum_sd_swapped_single(columns) ==
    LET norm_cols == normalize_columns(columns)
        rows == ZipColumns(norm_cols)
        sds == [r \in 1..Len(rows) |->
                   IF Len(rows[r]) = 0 THEN Zero
                   ELSE IF Len(rows[r]) = 1 THEN rows[r][1]
                   ELSE np_std_ddof1(rows[r])]
        means == [r \in 1..Len(rows) |->
                     IF Len(rows[r]) = 0 THEN Zero
                     ELSE IF Len(rows[r]) = 1 THEN Zero
                     ELSE np_mean(rows[r])]
    IN  [sum_sd |-> FSum(sds), sds |-> sds, means |-> means,
         norm_cols |-> norm_cols]

calc_sum_sd_from_columns(columns) ==
    LET norm_cols == normalize_columns(columns)
        rows == ZipColumns(norm_cols)
        sds == [r \in 1..Len(rows) |->
                   IF Len(rows[r]) = 0 THEN Zero
                   ELSE IF Len(rows[r]) = 1 THEN Zero
                   ELSE np_std_ddof1(rows[r])]
        means == [r \in 1..Len(rows) |->
                     IF Len(rows[r]) = 0 THEN Zero
                     ELSE IF Len(rows[r]) = 1 THEN rows[r][1]
                     ELSE np_mean(rows[r])]
    IN  [sum_sd |-> FSum(sds), sds |-> sds, means |-> means,
         norm_cols |-> norm_cols]

\* Variant: the key is the column list as assembled, not sorted.
canonicalize_unsorted(cols) == cols

\* Variant: the key keeps only the first row's value of every column.
canonicalize_first_row(cols) ==
    SortedTuples([c \in 1..Len(cols) |-> <<cols[c][1]>>])

canonicalize_columns(cols) == SortedTuples(cols)

\* Variant: arrangements by value, equal values taken once at each position.
RECURSIVE permutations_by_value(_, _)
permutations_by_value(v, r) ==
    IF r = 0 THEN << <<>> >>
    ELSE Flatten([i \in 1..Len(v) |->
                    IF \E h \in 1..(i - 1) : v[h] = v[i] THEN <<>>
                    ELSE LET rest == permutations_by_value(RemoveAt(v, i), r - 1)
                         IN  [j \in 1..Len(rest) |-> <<v[i]>> \o rest[j]]])

\* Variant: itertools.combinations, the positions in increasing order only.
RECURSIVE combinations(_, _)
combinations(v, r) ==
    IF r = 0 THEN << <<>> >>
    ELSE Flatten([i \in 1..Len(v) |->
                    LET rest == combinations(SubSeq(v, i + 1, Len(v)), r - 1)
                    IN  [j \in 1..Len(rest) |-> <<v[i]>> \o rest[j]]])

\* itertools.permutations(v, r): the r-length arrangements of the positions
\* of v, in lexicographic order of the positions.
RECURSIVE permutations(_, _)
permutations(v, r) ==
    IF r = 0 THEN << <<>> >>
    ELSE Flatten([i \in 1..Len(v) |->
                    LET rest == permutations(RemoveAt(v, i), r - 1)
                    IN  [j \in 1..Len(rest) |-> <<v[i]>> \o rest[j]]])

\* Element number n (from 0) of itertools.product(*lists): the last list
\* varies fastest.
product_at(lists, n) ==
    [j \in 1..Len(lists) |->
        LET after == ProdLen(SubSeq(lists, j + 1, Len(lists)))
        IN  lists[j][((n \div after) % Len(lists[j])) + 1]]

\* Variant: an unstable sort, which puts an element before its equals.
RECURSIVE InsertResultBeforeEquals(_, _)
InsertResultBeforeEquals(x, s) ==
    IF s = <<>> THEN <<x>>
    ELSE IF ~FLess(Head(s).sum_sd, x.sum_sd) THEN <<x>> \o s
    ELSE <<Head(s)>> \o InsertResultBeforeEquals(x, Tail(s))

\* results.sort(key=lambda x: x['sum_sd']): stable, ascending by sum_sd.
RECURSIVE InsertResult(_, _)
InsertResult(x, s) ==
    IF s = <<>> THEN <<x>>
    ELSE IF FLess(x.sum_sd, Head(s).sum_sd) THEN <<x>> \o s
    ELSE <<Head(s)>> \o InsertResult(x, Tail(s))

RECURSIVE SortResults(_)
SortResults(s) ==
    IF s = <<>> THEN <<>>
    ELSE InsertResult(s[Len(s)], SortResults(SubSeq(s, 1, Len(s) - 1)))

\* min(counts)
RECURSIVE MinOf(_)
MinOf(s) == IF Len(s) = 1 THEN s[1] ELSE Min2(s[1], MinOf(Tail(s)))

\* ------------------------------------------------------------------------
\* Inputs: what the user typed in each row's text box.  A row either parses
\* (ok, with its values) or holds a token float() rejects.
\* ------------------------------------------------------------------------
Values == 0..MaxVal

SeqsUpTo(S, n) == UNION {[1..m -> S] : m \in 1..n}

Malformed == [ok |-> FALSE, vals |-> <<>>]

\* The rows of at most n values.
RowTexts(n) == {Malformed} \cup {[ok |-> TRUE, vals |-> v] : v \in SeqsUpTo(Values, n)}

\* The number of tokens typed in a row; a malformed row holds one at least.
Cells(r) == IF r.ok THEN Len(r.vals) ELSE 1

\* The tables of n rows holding at most c tokens altogether.
RECURSIVE Tables(_, _)
Tables(n, c) ==
    IF n = 0 THEN {<<>>}
    ELSE UNION {{<<r>> \o t : t \in Tables(n - 1, c - Cells(r))} :
                   r \in {x \in RowTexts(c) : Cells(x) <= c}}

VARIABLES
    num_rows,        \* sidebar number_input
    text,            \* text[i]: the content of row i's text box
    row,             \* the parsing loop's position (i of line 47, from 1)
    data,            \* the dict data, in insertion order: <<[key, vals], ...>>
    warned,          \* rows for which st.warning was shown
    run,             \* the value of the run button
    pc,              \* the script's position
    err,             \* the exception that ended the script, if any
    defined,         \* names bound in the script's namespace
    nonzero_data,    \* line 97
    k,               \* line 99
    row_perms_list,  \* line 103
    total,           \* line 111
    checked,         \* line 112
    progress,        \* the last value of checked shown on the progress bar
    seen,            \* line 107 (the keys of the dict)
    results,         \* line 108
    topn,            \* line 147
    shown,           \* the results shown in the Top 10 expanders
    exported,        \* the rows written to the worksheet
    discovered,      \* history: the results in the order they were appended
    scored,          \* history: calls of calc_sum_sd_from_columns
    discarded,       \* history: candidates dropped at the seen-check
    zero_rejects,    \* history: candidates dropped at the zero-check
    export_runs      \* history: executions of the export block

vars == <<num_rows, text, row, data, warned, run, pc, err, defined,
          nonzero_data, k, row_perms_list, total, checked, progress, seen,
          results, topn, shown, exported, discovered, scored, discarded,
          zero_rejects, export_runs>>

inputVars == <<num_rows, text>>

searchVars == <<nonzero_data, k, row_perms_list, total, checked, progress,
                seen, results, discovered, scored, discarded, zero_rejects>>

outputVars == <<topn, shown, exported, export_runs>>

Start ==
    /\ row = 1
    /\ data = <<>>
    /\ warned = {}
    /\ run = FALSE
    /\ pc = "input"
    /\ err = "none"
    /\ defined = {}
    /\ nonzero_data = <<>>
    /\ k = 0
    /\ row_perms_list = <<>>
    /\ total = 0
    /\ checked = 0
    /\ progress = 0
    /\ seen = {}
    /\ results = <<>>
    /\ topn = 0
    /\ shown = <<>>
    /\ exported = <<>>
    /\ discovered = <<>>
    /\ scored = 0
    /\ discarded = 0
    /\ zero_rejects = 0
    /\ export_runs = 0

Init ==
    /\ num_rows \in 1..MaxRows
    /\ text \in Tables(num_rows, MaxCells)
    /\ Start

\* Lines 47-54: one pass of the input loop.
ParseRow ==
    /\ pc = "input"
    /\ IF text[row].ok
       THEN /\ data' = Append(data, [key |-> row, vals |-> text[row].vals])
            /\ warned' = warned
       ELSE /\ warned' = warned \cup {row}
            /\ data' = data
    /\ row' = row + 1
    /\ pc' = IF row = num_rows THEN "button" ELSE "input"
    /\ UNCHANGED <<inputVars, run, err, defined, searchVars, outputVars>>

\* Lines 59-61: the button's value decides whether the search block runs.
Button ==
    /\ pc = "button"
    /\ \E pressed \in BOOLEAN :
          /\ run' = pressed
          /\ pc' = IF pressed THEN "prepare" ELSE "export"
    /\ UNCHANGED <<inputVars, row, data, warned, err, defined, searchVars,
                   outputVars>>

\* Lines 97-112: min() of an empty list raises ValueError.
Prepare ==
    /\ pc = "prepare"
    /\ IF data = <<>>
       THEN /\ pc' = "crashed"
            /\ err' = "ValueError"
            /\ UNCHANGED <<defined, searchVars>>
       ELSE LET nz == [j \in 1..Len(data) |->
                          [key |-> data[j].key, vals |-> nonzero_list(data[j].vals)]]
                counts == [j \in 1..Len(nz) |-> Len(nz[j].vals)]
                kk == MinOf(counts)
                perms == [j \in 1..Len(nz) |-> permutations(nz[j].vals, kk)]
            IN  /\ nonzero_data' = nz
                /\ k' = kk
                /\ row_perms_list' = perms
                /\ total' = ProdLen(perms)
                /\ seen' = {}
                /\ results' = <<>>
                /\ checked' = 0
                /\ defined' = defined \cup {"results"}
                /\ pc' = "loop"
                /\ err' = err
                /\ UNCHANGED <<progress, discovered, scored, discarded, zero_rejects>>
    /\ UNCHANGED <<inputVars, row, data, warned, run, outputVars>>

\* Lines 114-132: one pass of the search loop.
LoopStep ==
    /\ pc = "loop"
    /\ checked < ProdLen(row_perms_list)
    /\ LET perm_set == product_at(row_perms_list, checked)
           cols == [i \in 1..k |-> [j \in 1..Len(perm_set) |-> perm_set[j][i]]]
           cols_nozero == SelectSeq(cols, LAMBDA col : 0 \notin Range(col))
           key == canonicalize_columns(cols_nozero)
       IN  /\ checked' = checked + 1
           /\ progress' = IF (checked + 1) % 500 = 0 THEN checked + 1 ELSE progress
           /\ IF Len(cols_nozero) # k
              THEN /\ zero_rejects' = zero_rejects + 1
                   /\ UNCHANGED <<seen, results, discovered, scored, discarded>>
              ELSE IF key \in seen
              THEN /\ discarded' = discarded + 1
                   /\ UNCHANGED <<seen, results, discovered, scored, zero_rejects>>
              ELSE LET s == calc_sum_sd_from_columns(cols_nozero)
                       r == [sum_sd |-> s.sum_sd, sds |-> s.sds,
                             means |-> s.means, columns |-> cols_nozero]
                   IN  /\ scored' = scored + 1
                       /\ seen' = seen \cup {key}
                       /\ results' = Append(results, r)
                       /\ discovered' = Append(discovered, r)
                       /\ UNCHANGED <<discarded, zero_rejects>>
    /\ UNCHANGED <<inputVars, row, data, warned, run, pc, err, defined,
                   nonzero_data, k, row_perms_list, total, outputVars>>

\* Lines 134-135: the loop is exhausted; the results are sorted in place.
RankResults ==
    /\ pc = "loop"
    /\ checked = ProdLen(row_perms_list)
    /\ results' = SortResults(results)
    /\ pc' = "display"
    /\ UNCHANGED <<inputVars, row, data, warned, run, err, defined,
                   nonzero_data, k, row_perms_list, total, checked, progress,
                   seen, discovered, scored, discarded, zero_rejects, outputVars>>

TopLimit == 10

\* Lines 142-165: the ranking list.
Display ==
    /\ pc = "display"
    /\ topn' = Min2(TopLimit, Len(results))
    /\ shown' = SubSeq(results, 1, Min2(TopLimit, Len(results)))
    /\ defined' = defined \cup {"topn"}
    /\ pc' = "export"
    /\ UNCHANGED <<inputVars, row, data, warned, run, err, searchVars,
                   exported, export_runs>>

\* Lines 172-207: the export block stands at module level, outside "if run".
\* Line 182 evaluates results[:topn]; an unbound name raises NameError.
Export ==
    /\ pc = "export"
    /\ export_runs' = export_runs + 1
    /\ IF {"results", "topn"} \subseteq defined
       THEN /\ exported' = SubSeq(results, 1, Min2(topn, Len(results)))
            /\ pc' = "final"
            /\ err' = err
       ELSE /\ pc' = "crashed"
            /\ err' = "NameError"
            /\ exported' = exported
    /\ UNCHANGED <<inputVars, row, data, warned, run, defined, searchVars,
                   topn, shown>>

\* Line 209.
Finish ==
    /\ pc = "final"
    /\ pc' = "done"
    /\ UNCHANGED <<inputVars, row, data, warned, run, err, defined,
                   searchVars, outputVars>>

Next ==
    \/ ParseRow
    \/ Button
    \/ Prepare
    \/ LoopStep
    \/ RankResults
    \/ Display
    \/ Export
    \/ Finish

Spec == Init /\ [][Next]_vars

\* ------------------------------------------------------------------------
\* Other specifications
\* ------------------------------------------------------------------------
\* The end-to-end scenario: four rows, each "1, 1, 1, 0".
ScenarioRow == [ok |-> TRUE, vals |-> <<1, 1, 1, 0>>]

InitC5 ==
    /\ num_rows = 4
    /\ text = [i \in 1..4 |-> ScenarioRow]
    /\ Start

SpecC5 == InitC5 /\ [][Next]_vars

\* Inputs with more than ten distinct column groupings: a row of two values
\* against a row holding an arrangement of 1..RankLen.
RankLen == 4

InitRank ==
    /\ num_rows = 2
    /\ \E a \in [1..2 -> 1..MaxVal] :
       \E b \in {f \in [1..RankLen -> 1..RankLen] : Range(f) = 1..RankLen} :
          text = <<[ok |-> TRUE, vals |-> a], [ok |-> TRUE, vals |-> b]>>
    /\ Start

SpecRank == InitRank /\ [][Next]_vars

\* Two rows of three non-zero values each: k = 3, so that the scorer adds
\* three values per label, in the order of the columns.
InitDeep ==
    /\ num_rows = 2
    /\ \E a, b \in [1..3 -> 1..MaxVal] :
          text = <<[ok |-> TRUE, vals |-> a], [ok |-> TRUE, vals |-> b]>>
    /\ Start

SpecDeep == InitDeep /\ [][Next]_vars

\* ------------------------------------------------------------------------
\* Vocabulary of the properties
\* ------------------------------------------------------------------------
\* The search block has been entered (the loop runs or has run).
Searched == "results" \in defined

\* The loop has ended and results.sort has run.
Ranked == run /\ pc \in {"display", "export", "final", "done"}

Count(s, x) == Cardinality({i \in 1..Len(s) : s[i] = x})

SameMultiset(s, t) ==
    /\ Len(s) = Len(t)
    /\ \A x \in Range(s) \cup Range(t) : Count(s, x) = Count(t, x)

\* The Combination assembled from row-arrangement tuple number n (line 119).
ColumnsAt(n) ==
    LET perm_set == product_at(row_perms_list, n)
    IN  [i \in 1..k |-> [j \in 1..Len(perm_set) |-> perm_set[j][i]]]

ZeroFree(cols) == \A c \in 1..Len(cols) : 0 \notin Range(cols[c])

RECURSIVE Fact(_)
Fact(n) == IF n = 0 THEN 1 ELSE n * Fact(n - 1)

RECURSIVE ProductOf(_)
ProductOf(s) == IF s = <<>> THEN 1 ELSE Head(s) * ProductOf(Tail(s))

HasDuplicates(s) == \E i, j \in 1..Len(s) : i # j /\ s[i] = s[j]

Pos(s, x) == CHOOSE i \in 1..Len(s) : s[i] = x

\* For every row label, the normalized values across the columns of cols.
NormRows(cols) == ZipColumns(normalize_columns(cols))

SameNormMultisets(c1, c2) ==
    LET r1 == NormRows(c1)
        r2 == NormRows(c2)
    IN  /\ Len(r1) = Len(r2)
        /\ \A l \in 1..Len(r1) : SameMultiset(r1[l], r2[l])

\* ------------------------------------------------------------------------
\* Properties
\* ------------------------------------------------------------------------

\* C1: throughout the search loop and after it, the results hold at most one
\* entry per column multiset; the Combination just processed has exactly one
\* entry and, at the end, so has every generated Combination; a Combination
\* whose key is in the seen-set is dropped without a call of the scorer.
C1_OneResultPerKey ==
    Searched =>
        /\ \A i, j \in 1..Len(discovered) :
              i # j => /\ ~SameMultiset(discovered[i].columns, discovered[j].columns)
                       /\ canonicalize_columns(discovered[i].columns)
                             # canonicalize_columns(discovered[j].columns)
        /\ LET processed == IF Ranked THEN 0..(total - 1)
                            ELSE {n \in {checked - 1} : n >= 0}
           IN  \A n \in processed :
                  Cardinality({i \in 1..Len(results) :
                                  SameMultiset(results[i].columns, ColumnsAt(n))}) = 1
        /\ Len(results) = Len(discovered)
        /\ scored = Len(results)
        /\ Cardinality(seen) = Len(results)
        /\ checked = scored + discarded + zero_rejects
        /\ (Ranked => checked = total)

C1_Witness ==
    /\ Ranked
    /\ discarded > 0
    /\ Len(results) >= 2
    /\ k >= 2

\* C2: when some parsed row has no non-zero value, the search ends without
\* any ScoredResult.
C2_EmptySearchNoResult ==
    (Searched /\ \E j \in 1..Len(data) : nonzero_list(data[j].vals) = <<>>)
        => /\ results = <<>>
           /\ scored = 0
           /\ pc # "crashed"

\* C3: when some row fails numeric parsing, enumeration never starts: no
\* arrangement is generated, nothing is scored, there is no result.
C3_ParseFailureStopsSearch ==
    warned # {} =>
        /\ pc \notin {"loop", "display"}
        /\ ~Searched
        /\ row_perms_list = <<>>
        /\ checked = 0
        /\ scored = 0
        /\ results = <<>>

\* C4: after ranking, results is a permutation of the accumulated results in
\* non-decreasing order of sum_sd, equal sum_sd keep their discovery order,
\* and the exposed top list is the first min(10, number of results) entries.
C4_RankedOrder ==
    Ranked =>
        /\ SameMultiset(results, discovered)
        /\ \A i \in 1..(Len(results) - 1) :
              ~FLess(results[i + 1].sum_sd, results[i].sum_sd)
        /\ \A i, j \in 1..Len(results) :
              (i < j /\ results[i].sum_sd = results[j].sum_sd)
                  => Pos(discovered, results[i]) < Pos(discovered, results[j])
        /\ ("topn" \in defined) =>
              /\ topn = IF Len(results) < 10 THEN Len(results) ELSE 10
              /\ Len(shown) = topn
              /\ \A i \in 1..topn : shown[i] = results[i]
        /\ (pc \in {"final", "done"}) => exported = shown

C4_Witness ==
    /\ Ranked
    /\ pc = "done"
    /\ Len(results) > 10
    /\ Len(shown) = 10
    /\ results # discovered
    /\ \E i, j \in 1..Len(results) :
          i < j /\ results[i].sum_sd = results[j].sum_sd

\* C5: four rows [1,1,1,0]: k = 3, all 1296 tuples are visited, and there is
\* exactly one result, of three columns (1,1,1,1) and sum_sd 0.
C5_Scenario ==
    Ranked =>
        /\ k = 3
        /\ total = 1296
        /\ checked = 1296
        /\ Len(results) = 1
        /\ results[1].columns = <<<<1, 1, 1, 1>>, <<1, 1, 1, 1>>, <<1, 1, 1, 1>>>>
        /\ results[1].sum_sd = <<0, 0>>
        /\ \A l \in 1..4 : results[1].sds[l] = <<0, 0>>

C5_Witness ==
    /\ pc = "done"
    /\ run
    /\ checked = 1296
    /\ discarded = 1295

\* C6: no zero typed in a row reaches an Arrangement: for every tuple the
\* loop processes, its arrangements and its k columns are zero-free, and the
\* zero-check never rejects.
C6_ZeroNeverArranged ==
    Searched =>
        /\ zero_rejects = 0
        /\ checked > 0 =>
              LET perm_set == product_at(row_perms_list, checked - 1)
              IN  /\ \A j \in 1..Len(perm_set) :
                        /\ Len(perm_set[j]) = k
                        /\ 0 \notin Range(perm_set[j])
                  /\ Len(ColumnsAt(checked - 1)) = k
                  /\ ZeroFree(ColumnsAt(checked - 1))
        /\ \A i \in 1..Len(results) : ZeroFree(results[i].columns)

C6_Witness ==
    /\ Ranked
    /\ k >= 1
    /\ checked > 1
    /\ \A j \in 1..Len(data) : 0 \in Range(data[j].vals)

\* C7: with k = 1 every result has sd 0 for every label, sum_sd 0, and each
\* label's mean is its single normalized value, 100 for the first row.
C7_SingleSample ==
    (Searched /\ k = 1) =>
        \A i \in 1..Len(results) :
           LET r == results[i] IN
           /\ Len(r.columns) = 1
           /\ r.sum_sd = <<0, 0>>
           /\ Len(r.sds) = Len(data)
           /\ Len(r.means) = Len(data)
           /\ \A l \in 1..Len(r.sds) : r.sds[l] = <<0, 0>>
           /\ \A l \in 1..Len(r.means) :
                 r.means[l] = normalize_columns(r.columns)[1][l]
           /\ r.means[1] = <<25, 2>>

C7_Witness ==
    /\ Ranked
    /\ k = 1
    /\ Len(data) = 2
    /\ Len(results) >= 2
    /\ \E i \in 1..Len(results) : results[i].means[2] # <<25, 2>>

\* C8: a row with n non-zero values contributes n!/(n-k)! arrangements, equal
\* values or not; the total is the product of these counts; when the loop
\* ends checked equals the total; the results never outnumber checked.
C8_PositionalCount ==
    Searched =>
        /\ \A j \in 1..Len(nonzero_data) :
              LET n == Len(nonzero_data[j].vals)
              IN  Len(row_perms_list[j]) = Fact(n) \div Fact(n - k)
        /\ total = ProductOf([j \in 1..Len(nonzero_data) |->
                       LET n == Len(nonzero_data[j].vals)
                       IN  Fact(n) \div Fact(n - k)])
        /\ checked <= total
        /\ Len(results) <= checked
        /\ (Ranked => checked = total)

C8_Witness ==
    /\ Ranked
    /\ k >= 1
    /\ \E j \in 1..Len(nonzero_data) :
          /\ HasDuplicates(nonzero_data[j].vals)
          /\ Len(nonzero_data[j].vals) > k

\* C9: the export block runs only after the search has run and the results
\* have been sorted, never while the run button is not pressed.
C9_ExportAfterRanking ==
    (pc = "export" \/ export_runs > 0) =>
        /\ run
        /\ {"results", "topn"} \subseteq defined
        /\ err # "NameError"

=============================================================================
